---- MODULE Spec2Model ----
(***************************************************************************)
(* Model of the two analysis utilities of ArgentTelemetry:                 *)
(*   split_Cross_Channel_Authors.main   (prog = "cross")                   *)
(*   Duplicate_author_text_rows.main    (prog = "dup")                     *)
(*                                                                         *)
(* A string is a sequence of character codes, so that str.strip, str.lower *)
(* and Python's code-point string ordering are computed, not assumed.      *)
(* A cell is a record [t, v]: t = "none" is an empty cell (None / NaN),    *)
(* t = "str" a text cell whose characters are v.  Cells of other types     *)
(* (numbers, booleans, dates) are not enumerated.                          *)
(***************************************************************************)
EXTENDS Integers, Sequences, FiniteSets, TLC

VARIABLES
    prog,                \* which script runs: "cross" or "dup"
    header,              \* header row of the input sheet
    rows,                \* data rows of the input sheet, in sheet order
    args,                \* parsed command line (argparse Namespace)
    sort_ties,           \* how the build's default (unstable) sort leaves ties
    astype_na,           \* what the build's astype(str) makes of a missing value
    run,                 \* 1 = first execution, 2 = re-execution on the same input
    pc,                  \* position in main()
    outdir_made,         \* cross: os.makedirs(args.outdir) has run
    total_rows,          \* cross: rows consumed from rows_iter
    channels_by_author,  \* cross: author_s -> set of channel_s
    rows_by_author,      \* cross: author_s -> list of row references
    cross_authors,       \* cross: the selected set, as its iteration order
    work,                \* dup: the normalized copy of df
    dup_rows,            \* dup: work.loc[dup_mask]
    summary,             \* dup: the grouped and sorted summary frame
    workbook,            \* the saved output workbook (<<>> while none is saved)
    err,                 \* the exception main() ended with ("" while none)
    prev_workbook        \* the workbook the first execution saved

vars == <<prog, header, rows, args, sort_ties, astype_na, run, pc, outdir_made, total_rows,
          channels_by_author, rows_by_author, cross_authors, work, dup_rows,
          summary, workbook, err, prev_workbook>>

(***************************************************************************)
(* Bounds of the model.                                                    *)
(***************************************************************************)
MaxRowsCross == 3
MaxRowsDup == 5
MaxRowsShort == 3
MaxRowsNull == 3

(***************************************************************************)
(* Strings.                                                                *)
(***************************************************************************)
\* the characters str.strip() removes (ASCII range)
Whitespace == {9, 10, 11, 12, 13, 28, 29, 30, 31, 32}

RECURSIVE LStrip(_)
LStrip(s) == IF s # <<>> /\ Head(s) \in Whitespace THEN LStrip(Tail(s)) ELSE s

RECURSIVE RStrip(_)
RStrip(s) ==
    IF s # <<>> /\ s[Len(s)] \in Whitespace
    THEN RStrip(SubSeq(s, 1, Len(s) - 1))
    ELSE s

\* str.strip()
Strip(s) == RStrip(LStrip(s))

\* str.lower() (ASCII range)
Lower(s) == [i \in DOMAIN s |-> IF s[i] \in 65..90 THEN s[i] + 32 ELSE s[i]]

\* Python's s < t on str: lexicographic on code points
RECURSIVE StrLess(_, _)
StrLess(s, t) ==
    IF t = <<>> THEN FALSE
    ELSE IF s = <<>> THEN TRUE
    ELSE IF Head(s) # Head(t) THEN Head(s) < Head(t)
    ELSE StrLess(Tail(s), Tail(t))

\* Python's a < b on a 2-tuple of str
TupleLess(a, b) == StrLess(a[1], b[1]) \/ (a[1] = b[1] /\ StrLess(a[2], b[2]))

\* str.join: sep.join(parts)
RECURSIVE Join(_, _)
Join(sep, parts) ==
    IF parts = <<>> THEN <<>>
    ELSE IF Len(parts) = 1 THEN parts[1]
    ELSE parts[1] \o sep \o Join(sep, Tail(parts))

NoneCell == [t |-> "none", v |-> <<>>]
StrCell(s) == [t |-> "str", v |-> s]

\* str(value) of a cell value
PyStr(c) == IF c.t = "none" THEN <<78, 111, 110, 101>> ELSE c.v

(***************************************************************************)
(* Generic helpers for dicts, sets and sorting.                            *)
(***************************************************************************)
Range(s) == {s[i] : i \in DOMAIN s}

\* d[k] = v on a dict
Put(d, k, v) == [x \in DOMAIN d \cup {k} |-> IF x = k THEN v ELSE d[x]]

\* the orders in which a set can be iterated
Orders(S) ==
    {f \in [1..Cardinality(S) -> S] : \A i, j \in DOMAIN f : i # j => f[i] # f[j]}

RECURSIVE Concat(_)
Concat(ss) == IF ss = <<>> THEN <<>> ELSE Head(ss) \o Concat(Tail(ss))

(***************************************************************************)
(* Input sheets and command lines.                                         *)
(***************************************************************************)
ColAuthor == <<97, 117, 116, 104, 111, 114>>                           \* "author"
ColWriter == <<119, 114, 105, 116, 101, 114>>                          \* "writer"
ColChannel == <<99, 104, 97, 110, 110, 101, 108, 95, 110, 97, 109, 101>> \* "channel_name"
ColText == <<116, 101, 120, 116>>                                      \* "text"

\* author cells that name an author: "a ", "A", "B"
CrossAuthorCells == {StrCell(<<97, 32>>), StrCell(<<65>>), StrCell(<<66>>)}

\* channel cells: empty, "x ", "y"
CrossChannelCells == {NoneCell, StrCell(<<120, 32>>), StrCell(<<121>>)}

\* rows without an author: an empty author cell, and the author " "
CrossAnonymousRows ==
    {<<NoneCell, NoneCell>>, <<NoneCell, StrCell(<<121>>)>>,
     <<StrCell(<<32>>), StrCell(<<120, 32>>)>>}

CrossRow ==
    {<<a, c>> : a \in CrossAuthorCells, c \in CrossChannelCells}
        \cup CrossAnonymousRows

CrossSheets == UNION {[1..n -> CrossRow] : n \in 0..MaxRowsCross}

\* --author-col, --channel-col, --min-channels (type=int, default 2)
CrossArgs ==
    [author_col : {ColAuthor, ColWriter}, channel_col : {ColChannel},
     min_channels : {0, 1, 2}]

\* rows of a sheet read without a usable dimension record: a row tuple is as
\* long as its last stored cell: (), (empty,), ("A",), beside the full rows
\* ("A","y"), ("a ","x "), ("B",empty)
ShortRow ==
    {<<>>, <<NoneCell>>, <<StrCell(<<65>>)>>,
     <<StrCell(<<65>>), StrCell(<<121>>)>>,
     <<StrCell(<<97, 32>>), StrCell(<<120, 32>>)>>,
     <<StrCell(<<66>>), NoneCell>>}

ShortSheets == UNION {[1..n -> ShortRow] : n \in 0..MaxRowsShort}

\* command lines naming columns of the header, with a threshold of 1 or 2
ShortArgs ==
    [author_col : {ColAuthor}, channel_col : {ColChannel}, min_channels : {1, 2}]

(***************************************************************************)
(* split_Cross_Channel_Authors.py                                          *)
(***************************************************************************)
\* build_header_index: stripped name -> position (positions count from 1 here)
build_header_index(header_row) ==
    LET named == {i \in DOMAIN header_row : header_row[i].t # "none"}
        names == {Strip(PyStr(header_row[i])) : i \in named}
    IN  [n \in names |->
            CHOOSE i \in named :
                /\ Strip(PyStr(header_row[i])) = n
                /\ \A j \in named : Strip(PyStr(header_row[j])) = n => j <= i]

col_index == build_header_index(header)
author_i == col_index[args.author_col]
channel_i == col_index[args.channel_col]

\* the test of line 94 without the strip: " " would count as an author
AuthorIsEmptyNoStrip(author) == author.t = "none" \/ PyStr(author) = <<>>

\* line 94: the row carries no author
AuthorIsEmpty(author) == author.t = "none" \/ Strip(PyStr(author)) = <<>>

\* line 96
AuthorKey(author) == Strip(PyStr(author))

\* line 99
ChannelKey(channel) == IF channel.t # "none" THEN Strip(PyStr(channel)) ELSE <<>>

\* line 110: the selection test on one author's channel set
IsCrossAuthor(chans, min_channels) == Cardinality(chans) >= min_channels

\* the sort of lines 129 and 138 without key=str.lower
AuthorSortLessCaseSensitive(a, b) == StrLess(a, b)

\* line 129, 138: the sort key, compared
AuthorSortLess(a, b) == StrLess(Lower(a), Lower(b))

\* lines 129, 138: sorted(cross_authors, key=str.lower), a stable sort of the
\* set's iteration order s
SortedAuthors(s) ==
    LET rank(i) ==
            Cardinality({j \in DOMAIN s :
                \/ AuthorSortLess(s[j], s[i])
                \/ (~AuthorSortLess(s[i], s[j]) /\ j < i)}) + 1
    IN  [p \in DOMAIN s |-> s[CHOOSE i \in DOMAIN s : rank(i) = p]]

\* rows_by_author.get(author, [])
RowsOf(author) ==
    IF author \in DOMAIN rows_by_author THEN rows_by_author[author] ELSE <<>>

\* channels_by_author.get(author, set())
ChannelsOf(author) ==
    IF author \in DOMAIN channels_by_author THEN channels_by_author[author] ELSE {}

\* sorted(list(chans)) on a set of str
SortedChannels(chans) ==
    CHOOSE s \in Orders(chans) : \A i, j \in DOMAIN s : i < j => StrLess(s[i], s[j])

\* list(r) as appended to the output sheet; src is the row object it came from
OutRow(ref) == [src |-> ref, cells |-> rows[ref]]

\* line 140: one row of the "Author Index" sheet
IndexRow(author) ==
    LET chans == SortedChannels(ChannelsOf(author))
    IN  <<author, Len(chans), Join(<<44, 32>>, chans)>>

NoWorkbook == <<>>
NoError == [kind |-> "", columns_listed |-> {}]

\* lines 60-83: makedirs, load the sheet, read the header, resolve the columns
CrossOpen ==
    /\ prog = "cross" /\ pc = "start"
    /\ outdir_made' = TRUE
    /\ IF args.author_col \notin DOMAIN col_index
          \/ args.channel_col \notin DOMAIN col_index
       THEN /\ err' = [kind |-> "SystemExit", columns_listed |-> {}]
            /\ pc' = "failed"
       ELSE /\ pc' = "pass"
            /\ err' = err
    /\ UNCHANGED <<prog, header, rows, args, sort_ties, astype_na, run, total_rows,
                   channels_by_author, rows_by_author, cross_authors, work,
                   dup_rows, summary, workbook, prev_workbook>>

\* line 101 inserting at the front of the list
AppendRowAtFront(lst, ref) == <<ref>> \o lst

\* line 101: rows_by_author[author_s].append(r)
AppendRow(lst, ref) == Append(lst, ref)

\* lines 91-103: the body of the first-pass loop on row number ref, applied to
\* the two dicts d = [rows_by_author, channels_by_author]
PassRow(d, ref) ==
    LET r == rows[ref]
        author == r[author_i]
        author_s == AuthorKey(author)
        channel_s == ChannelKey(r[channel_i])
        old_rows == IF author_s \in DOMAIN d.rows_by_author
                    THEN d.rows_by_author[author_s] ELSE <<>>
        old_chans == IF author_s \in DOMAIN d.channels_by_author
                     THEN d.channels_by_author[author_s] ELSE {}
    IN  IF AuthorIsEmpty(author)
        THEN d
        ELSE [rows_by_author |-> Put(d.rows_by_author, author_s, AppendRow(old_rows, ref)),
              channels_by_author |->
                  IF channel_s # <<>>
                  THEN Put(d.channels_by_author, author_s, old_chans \cup {channel_s})
                  ELSE d.channels_by_author]

\* line 90: for r in rows_iter, over the rows numbered 1..n
RECURSIVE PassRows(_)
PassRows(n) ==
    IF n = 0
    THEN [rows_by_author |-> <<>>, channels_by_author |-> <<>>]
    ELSE PassRow(PassRows(n - 1), n)

\* lines 93, 98: indexing the row tuple r raises IndexError when r is shorter
\* than the column position; r[channel_i] is reached only for a named author
RowRaises(ref) ==
    \/ Len(rows[ref]) < author_i
    \/ (~AuthorIsEmpty(rows[ref][author_i]) /\ Len(rows[ref]) < channel_i)

\* the first row of the sheet on which the loop body raises (0: none does)
FirstRaising ==
    IF \E ref \in DOMAIN rows : RowRaises(ref)
    THEN CHOOSE ref \in DOMAIN rows :
             RowRaises(ref) /\ \A q \in DOMAIN rows : RowRaises(q) => ref <= q
    ELSE 0

\* lines 85-105: the first pass over every row of the sheet; an IndexError
\* ends the run at the row that raises it
CrossFirstPass ==
    /\ prog = "cross" /\ pc = "pass"
    /\ IF FirstRaising = 0
       THEN /\ total_rows' = Len(rows)
            /\ rows_by_author' = PassRows(Len(rows)).rows_by_author
            /\ channels_by_author' = PassRows(Len(rows)).channels_by_author
            /\ pc' = "select"
            /\ err' = err
       ELSE /\ total_rows' = FirstRaising
            /\ rows_by_author' = PassRows(FirstRaising - 1).rows_by_author
            /\ channels_by_author' = PassRows(FirstRaising - 1).channels_by_author
            /\ pc' = "failed"
            /\ err' = [kind |-> "IndexError", columns_listed |-> {}]
    /\ UNCHANGED <<prog, header, rows, args, sort_ties, astype_na, run, outdir_made,
                   cross_authors, work, dup_rows, summary, workbook,
                   prev_workbook>>

\* lines 107-114: the set comprehension; a set of str iterates in hash order,
\* which differs from one process to the next
CrossSelect ==
    /\ prog = "cross" /\ pc = "select"
    /\ \E order \in Orders({a \in DOMAIN channels_by_author :
                               IsCrossAuthor(channels_by_author[a], args.min_channels)}) :
           cross_authors' = order
    /\ pc' = "write"
    /\ UNCHANGED <<prog, header, rows, args, sort_ties, astype_na, run, outdir_made,
                   total_rows, channels_by_author, rows_by_author, work,
                   dup_rows, summary, workbook, err, prev_workbook>>

\* lines 116-145: both sheets are built and the workbook is saved
CrossWrite ==
    /\ prog = "cross" /\ pc = "write"
    /\ LET by_author == SortedAuthors(cross_authors)
           out_ws == Concat([k \in DOMAIN by_author |->
                        [i \in DOMAIN RowsOf(by_author[k]) |->
                            OutRow(RowsOf(by_author[k])[i])]])
           idx_ws == [k \in DOMAIN by_author |-> IndexRow(by_author[k])]
       IN  workbook' = [header |-> header, primary |-> out_ws, second |-> idx_ws]
    /\ pc' = "done"
    /\ UNCHANGED <<prog, header, rows, args, sort_ties, astype_na, run, outdir_made,
                   total_rows, channels_by_author, rows_by_author, cross_authors,
                   work, dup_rows, summary, err, prev_workbook>>

\* the same command line is run again on the same input, in a new process
Rerun ==
    /\ pc = "done" /\ run = 1
    /\ run' = 2
    /\ prev_workbook' = workbook
    /\ pc' = "start"
    /\ total_rows' = 0
    /\ channels_by_author' = <<>>
    /\ rows_by_author' = <<>>
    /\ cross_authors' = <<>>
    /\ work' = <<>>
    /\ dup_rows' = <<>>
    /\ summary' = <<>>
    /\ workbook' = NoWorkbook
    /\ UNCHANGED <<prog, header, rows, args, sort_ties, astype_na, outdir_made, err>>

(***************************************************************************)
(* Duplicate_author_text_rows.py                                           *)
(***************************************************************************)
\* rows of the input sheet: ("a","x"), ("a ","x "), ("B","x"), ("a","y")
DupRow ==
    {<<StrCell(<<97>>), StrCell(<<120>>)>>,
     <<StrCell(<<97, 32>>), StrCell(<<120, 32>>)>>,
     <<StrCell(<<66>>), StrCell(<<120>>)>>,
     <<StrCell(<<97>>), StrCell(<<121>>)>>}

DupSheets == UNION {[1..n -> DupRow] : n \in 0..MaxRowsDup}

\* --author-col, --text-col, --no-trim
DupArgs == [author_col : {ColAuthor, ColWriter}, text_col : {ColText}, no_trim : BOOLEAN]

\* df.columns: label -> position
Columns(header_row) ==
    [n \in {header_row[i].v : i \in DOMAIN header_row} |->
        CHOOSE i \in DOMAIN header_row : header_row[i].v = n]

\* line 31: the texts pd.read_excel reads as a missing value (keep_default_na)
DefaultNaStrings ==
    {<<>>,   \* ""
     <<35, 78, 47, 65>>,   \* "#N/A"
     <<35, 78, 47, 65, 32, 78, 47, 65>>,   \* "#N/A N/A"
     <<35, 78, 65>>,   \* "#NA"
     <<45, 49, 46, 35, 73, 78, 68>>,   \* "-1.#IND"
     <<45, 49, 46, 35, 81, 78, 65, 78>>,   \* "-1.#QNAN"
     <<45, 78, 97, 78>>,   \* "-NaN"
     <<45, 110, 97, 110>>,   \* "-nan"
     <<49, 46, 35, 73, 78, 68>>,   \* "1.#IND"
     <<49, 46, 35, 81, 78, 65, 78>>,   \* "1.#QNAN"
     <<60, 78, 65, 62>>,   \* "<NA>"
     <<78, 47, 65>>,   \* "N/A"
     <<78, 65>>,   \* "NA"
     <<78, 85, 76, 76>>,   \* "NULL"
     <<78, 97, 78>>,   \* "NaN"
     <<78, 111, 110, 101>>,   \* "None"
     <<110, 47, 97>>,   \* "n/a"
     <<110, 97, 110>>,   \* "nan"
     <<110, 117, 108, 108>>}   \* "null"

\* line 31: one cell of df as pd.read_excel returns it
ReadExcelCell(c) ==
    IF c.t = "str" /\ c.v \in DefaultNaStrings THEN NoneCell ELSE c

\* line 31: row ref of df
Df(ref) == [c \in DOMAIN rows[ref] |-> ReadExcelCell(rows[ref][c])]

\* Series.astype(str) on one value: a missing value becomes the text "nan"
\* (astype_na = "nan": object columns, pandas before 3.0) or stays missing
\* (astype_na = "kept": the str dtype of pandas 3)
AsTypeStr(c) ==
    IF c.t = "none"
    THEN IF astype_na = "nan" THEN StrCell(<<110, 97, 110>>) ELSE NoneCell
    ELSE StrCell(c.v)

\* Series.fillna("") on one value
FillNa(c) == IF c.t = "none" THEN StrCell(<<>>) ELSE c

\* Series.str.strip() on one value
StrStrip(c) == IF c.t = "none" THEN c ELSE StrCell(Strip(c.v))

\* line 41: the value stored back into work[args.author_col]
NormAuthor(c) == StrStrip(FillNa(AsTypeStr(c)))

\* lines 43-46: the value of the helper column _text_norm
NormText(c, no_trim) ==
    IF no_trim THEN FillNa(AsTypeStr(c)) ELSE StrStrip(FillNa(AsTypeStr(c)))

\* lines 40-46: one row of work; ref is the row's index label in df
WorkRow(ref) ==
    LET ai == Columns(header)[args.author_col]
        ti == Columns(header)[args.text_col]
    IN  [src |-> ref,
         cells |-> [Df(ref) EXCEPT ![ai] = NormAuthor(Df(ref)[ai])],
         text_norm |-> NormText(Df(ref)[ti], args.no_trim)]

\* the values of subset=[args.author_col, "_text_norm"] in a row of work
DupKey(w) == <<w.cells[Columns(header)[args.author_col]].v, w.text_norm.v>>

\* line 49 with the default keep="first": the first occurrence is not marked
DupMaskKeepFirst(frame, i) ==
    \E j \in DOMAIN frame : j < i /\ DupKey(frame[j]) = DupKey(frame[i])

\* line 49: DataFrame.duplicated(subset=..., keep=False) at position i
DupMask(frame, i) == \E j \in DOMAIN frame : j # i /\ DupKey(frame[j]) = DupKey(frame[i])

\* the selected rows, last row first
RECURSIVE LocNewestFirst(_, _)
LocNewestFirst(frame, n) ==
    IF n = 0 THEN <<>>
    ELSE IF \E j \in DOMAIN frame : j # n /\ DupKey(frame[j]) = DupKey(frame[n])
         THEN <<frame[n]>> \o LocNewestFirst(frame, n - 1)
         ELSE LocNewestFirst(frame, n - 1)

\* frame.loc[mask]: the rows the mask selects, in frame order
RECURSIVE Loc(_, _)
Loc(frame, n) ==
    IF n = 0 THEN <<>>
    ELSE IF DupMask(frame, n)
         THEN Append(Loc(frame, n - 1), frame[n])
         ELSE Loc(frame, n - 1)

\* lines 54-56: groupby(...).size().reset_index(name="repeat_count"): one row
\* per key, keys ascending
GroupSizes(frame) ==
    LET keys == {DupKey(frame[i]) : i \in DOMAIN frame}
        sorted == CHOOSE s \in Orders(keys) :
                      \A i, j \in DOMAIN s : i < j => TupleLess(s[i], s[j])
    IN  [k \in DOMAIN sorted |->
            <<sorted[k][1], sorted[k][2],
              Cardinality({i \in DOMAIN frame : DupKey(frame[i]) = sorted[k]})>>]

\* line 57 without ascending=False
CountBeforeAscending(g, h) == g[3] < h[3]

\* line 57: the order of two summary rows under ascending=False
CountBefore(g, h) == g[3] > h[3]

\* a sort by repeat_count that leaves rows of equal repeat_count in the order
\* they have in s
SortByCount(s) ==
    LET rank(i) ==
            Cardinality({j \in DOMAIN s :
                \/ CountBefore(s[j], s[i])
                \/ (~CountBefore(s[i], s[j]) /\ j < i)}) + 1
    IN  [p \in DOMAIN s |-> s[CHOOSE i \in DOMAIN s : rank(i) = p]]

\* line 57: sort_values("repeat_count", ascending=False) with the default
\* kind="quicksort", which is not stable: rows of equal repeat_count come out
\* in an order the sort algorithm of the build decides
SortValues(groups) ==
    LET n == Len(groups)
        reversed == [i \in 1..n |-> groups[n + 1 - i]]
    IN  IF sort_ties = "kept" THEN SortByCount(groups) ELSE SortByCount(reversed)

\* line 61: drop(columns=["_text_norm"])
DropHelper(w) == [src |-> w.src, cells |-> w.cells]

\* lines 31-37: read the sheet and check the two column names; building the
\* message evaluates args.author-col, which raises AttributeError
DupRead ==
    /\ prog = "dup" /\ pc = "start"
    /\ IF args.author_col \notin DOMAIN Columns(header)
          \/ args.text_col \notin DOMAIN Columns(header)
       THEN /\ err' = [kind |-> "AttributeError", columns_listed |-> {}]
            /\ pc' = "failed"
       ELSE /\ pc' = "normalize"
            /\ err' = err
    /\ UNCHANGED <<prog, header, rows, args, sort_ties, astype_na, run, outdir_made,
                   total_rows, channels_by_author, rows_by_author, cross_authors,
                   work, dup_rows, summary, workbook, prev_workbook>>

\* lines 39-46
DupNormalize ==
    /\ prog = "dup" /\ pc = "normalize"
    /\ work' = [i \in DOMAIN rows |-> WorkRow(i)]
    /\ pc' = "find"
    /\ UNCHANGED <<prog, header, rows, args, sort_ties, astype_na, run, outdir_made,
                   total_rows, channels_by_author, rows_by_author, cross_authors,
                   dup_rows, summary, workbook, err, prev_workbook>>

\* lines 48-50
DupFind ==
    /\ prog = "dup" /\ pc = "find"
    /\ dup_rows' = Loc(work, Len(work))
    /\ pc' = "summarize"
    /\ UNCHANGED <<prog, header, rows, args, sort_ties, astype_na, run, outdir_made,
                   total_rows, channels_by_author, rows_by_author, cross_authors,
                   work, summary, workbook, err, prev_workbook>>

\* lines 52-58
DupSummarize ==
    /\ prog = "dup" /\ pc = "summarize"
    /\ summary' = SortValues(GroupSizes(dup_rows))
    /\ pc' = "write"
    /\ UNCHANGED <<prog, header, rows, args, sort_ties, astype_na, run, outdir_made,
                   total_rows, channels_by_author, rows_by_author, cross_authors,
                   work, dup_rows, workbook, err, prev_workbook>>

\* lines 60-73: the helper column is dropped and both sheets are written
DupWrite ==
    /\ prog = "dup" /\ pc = "write"
    /\ dup_rows' = [i \in DOMAIN dup_rows |-> DropHelper(dup_rows[i])]
    /\ workbook' = [header |-> header,
                    primary |-> [i \in DOMAIN dup_rows |-> DropHelper(dup_rows[i])],
                    second |-> summary]
    /\ pc' = "done"
    /\ UNCHANGED <<prog, header, rows, args, sort_ties, astype_na, run, outdir_made,
                   total_rows, channels_by_author, rows_by_author, cross_authors,
                   work, summary, err, prev_workbook>>

\* rows with missing values: ("a",empty), ("a","nan"), ("a"," nan"),
\* ("a","x"), (empty,"x")
NullRow ==
    {<<StrCell(<<97>>), NoneCell>>,
     <<StrCell(<<97>>), StrCell(<<110, 97, 110>>)>>,
     <<StrCell(<<97>>), StrCell(<<32, 110, 97, 110>>)>>,
     <<StrCell(<<97>>), StrCell(<<120>>)>>,
     <<NoneCell, StrCell(<<120>>)>>}

NullSheets == UNION {[1..n -> NullRow] : n \in 0..MaxRowsNull}

\* command lines naming columns of the header
NullArgs == [author_col : {ColAuthor}, text_col : {ColText}, no_trim : BOOLEAN]

(***************************************************************************)
(* Specifications.                                                         *)
(***************************************************************************)
InitCross ==
    /\ prog = "cross"
    /\ header = <<StrCell(ColAuthor), StrCell(ColChannel)>>
    /\ rows \in CrossSheets
    /\ args \in CrossArgs
    /\ sort_ties = "kept"
    /\ astype_na = "nan"

InitDup ==
    /\ prog = "dup"
    /\ header = <<StrCell(ColAuthor), StrCell(ColText)>>
    /\ rows \in DupSheets
    /\ args \in DupArgs
    /\ sort_ties \in {"kept", "reversed"}
    /\ astype_na = "nan"

InitRun ==
    /\ run = 1
    /\ pc = "start"
    /\ outdir_made = FALSE
    /\ total_rows = 0
    /\ channels_by_author = <<>>
    /\ rows_by_author = <<>>
    /\ cross_authors = <<>>
    /\ work = <<>>
    /\ dup_rows = <<>>
    /\ summary = <<>>
    /\ workbook = NoWorkbook
    /\ err = NoError
    /\ prev_workbook = NoWorkbook

NextCross == CrossOpen \/ CrossFirstPass \/ CrossSelect \/ CrossWrite \/ Rerun

NextDup == DupRead \/ DupNormalize \/ DupFind \/ DupSummarize \/ DupWrite \/ Rerun

Init == (InitCross \/ InitDup) /\ InitRun

Next ==
    \/ CrossOpen \/ CrossFirstPass \/ CrossSelect \/ CrossWrite
    \/ DupRead \/ DupNormalize \/ DupFind \/ DupSummarize \/ DupWrite
    \/ Rerun

Spec == Init /\ [][Next]_vars

InitCrossRun == InitCross /\ InitRun

\* the cross-channel detector on sheets whose rows may be short
InitShortRun ==
    /\ prog = "cross"
    /\ header = <<StrCell(ColAuthor), StrCell(ColChannel)>>
    /\ rows \in ShortSheets
    /\ args \in ShortArgs
    /\ sort_ties = "kept"
    /\ astype_na = "nan"
    /\ InitRun

SpecShort == InitShortRun /\ [][NextCross]_vars

InitDupRun == InitDup /\ InitRun

SpecCross == InitCrossRun /\ [][NextCross]_vars

SpecDup == InitDupRun /\ [][NextDup]_vars

\* the duplicate detector on sheets with missing values, under either build
InitNullRun ==
    /\ prog = "dup"
    /\ header = <<StrCell(ColAuthor), StrCell(ColText)>>
    /\ rows \in NullSheets
    /\ args \in NullArgs
    /\ sort_ties = "kept"
    /\ astype_na \in {"nan", "kept"}
    /\ InitRun

SpecNull == InitNullRun /\ [][NextDup]_vars

(***************************************************************************)
(* What the input sheet says, computed from the raw rows.                  *)
(***************************************************************************)
\* dup: the normalized (author, text) key of input row i
RowKey(i) == <<NormAuthor(Df(i)[1]).v, NormText(Df(i)[2], args.no_trim).v>>

\* dup: how many input rows carry the key K
Multiplicity(K) == Cardinality({i \in DOMAIN rows : RowKey(i) = K})

\* dup: the input rows with key K, in sheet order
RECURSIVE RowsWithKey(_, _)
RowsWithKey(K, n) ==
    IF n = 0 THEN <<>>
    ELSE IF RowKey(n) = K
         THEN Append(RowsWithKey(K, n - 1), n)
         ELSE RowsWithKey(K, n - 1)

\* cross: input row i names an author
HasAuthor(i) == rows[i][1].t = "str" /\ Strip(rows[i][1].v) # <<>>

\* cross: the trimmed authors of the sheet
SheetAuthors == {Strip(rows[i][1].v) : i \in {j \in DOMAIN rows : HasAuthor(j)}}

\* cross: the distinct non-empty trimmed channels on the rows of author a
SheetChannels(a) ==
    {Strip(rows[i][2].v) :
        i \in {j \in DOMAIN rows :
                  /\ HasAuthor(j) /\ Strip(rows[j][1].v) = a
                  /\ rows[j][2].t = "str" /\ Strip(rows[j][2].v) # <<>>}}

\* cross: the input rows of author a, in sheet order
RECURSIVE RowsOfAuthor(_, _)
RowsOfAuthor(a, n) ==
    IF n = 0 THEN <<>>
    ELSE IF HasAuthor(n) /\ Strip(rows[n][1].v) = a
         THEN Append(RowsOfAuthor(a, n - 1), n)
         ELSE RowsOfAuthor(a, n - 1)

Saved == workbook # NoWorkbook

\* the input rows the primary sheet was written from, in sheet order
PrimarySrc == [i \in DOMAIN workbook.primary |-> workbook.primary[i].src]

HeaderNames == {header[i].v : i \in DOMAIN header}

(***************************************************************************)
(* C1  Duplicate detector: every input row whose normalized (author, text) *)
(* key occurs m >= 2 times is written once to "Duplicate Rows", "Summary"  *)
(* has exactly one row for that key and it reports repeat_count = m, and   *)
(* no row or key of multiplicity 1 is in either sheet.                     *)
(***************************************************************************)
C1_DuplicateCompleteness ==
    (prog = "dup" /\ Saved) =>
        /\ \A i \in DOMAIN rows :
               Multiplicity(RowKey(i)) >= 2 =>
                   /\ Cardinality({p \in DOMAIN PrimarySrc : PrimarySrc[p] = i}) = 1
                   /\ Cardinality({k \in DOMAIN workbook.second :
                          <<workbook.second[k][1], workbook.second[k][2]>> = RowKey(i)}) = 1
                   /\ \A k \in DOMAIN workbook.second :
                          <<workbook.second[k][1], workbook.second[k][2]>> = RowKey(i)
                              => workbook.second[k][3] = Multiplicity(RowKey(i))
        /\ \A p \in DOMAIN PrimarySrc : Multiplicity(RowKey(PrimarySrc[p])) >= 2
        /\ \A k \in DOMAIN workbook.second :
               Multiplicity(<<workbook.second[k][1], workbook.second[k][2]>>) >= 2

\* a key of multiplicity 3 (two raw spellings) beside a row that is no duplicate
C1_Witness ==
    /\ prog = "dup" /\ Saved
    /\ \E i, j \in DOMAIN rows :
           /\ Multiplicity(RowKey(i)) = 3
           /\ rows[i] # rows[j] /\ RowKey(i) = RowKey(j)
    /\ \E i \in DOMAIN rows : Multiplicity(RowKey(i)) = 1

(***************************************************************************)
(* C2  Cross-channel detector: after the pass an author is selected if and *)
(* only if the number of distinct non-empty trimmed channels on the        *)
(* author's rows is >= the threshold, and rows with an empty channel are   *)
(* in the author's row list without being in the channel set.              *)
(***************************************************************************)
C2_SelectedIffThreshold ==
    (prog = "cross" /\ pc \in {"write", "done"}) =>
        /\ \A a \in SheetAuthors :
               a \in Range(cross_authors)
                   <=> Cardinality(SheetChannels(a)) >= args.min_channels
        /\ \A a \in SheetAuthors :
               /\ rows_by_author[a] = RowsOfAuthor(a, Len(rows))
               /\ ChannelsOf(a) = SheetChannels(a)

\* C2 with a threshold of at least 1: the equivalence the code computes
C2_ValidThreshold ==
    (prog = "cross" /\ pc \in {"write", "done"} /\ args.min_channels >= 1) =>
        \A a \in SheetAuthors :
            a \in Range(cross_authors)
                <=> Cardinality(SheetChannels(a)) >= args.min_channels

(***************************************************************************)
(* C3  Every row of a primary output sheet holds, in every column, the raw *)
(* cell values of the input row it was written from.                       *)
(***************************************************************************)
C3_RawCells ==
    Saved => \A p \in DOMAIN workbook.primary :
                 workbook.primary[p].cells = rows[workbook.primary[p].src]

(***************************************************************************)
(* C4  Duplicate detector: "Summary" is ordered by descending repeat_count *)
(* and groups of equal repeat_count are in ascending order of their key.   *)
(***************************************************************************)
C4_SummaryOrderWithTies ==
    (prog = "dup" /\ Saved) =>
        \A k, l \in DOMAIN workbook.second :
            k < l =>
                \/ workbook.second[k][3] > workbook.second[l][3]
                \/ /\ workbook.second[k][3] = workbook.second[l][3]
                   /\ TupleLess(<<workbook.second[k][1], workbook.second[k][2]>>,
                                <<workbook.second[l][1], workbook.second[l][2]>>)

\* C4 as amended: "Summary" is ordered by descending repeat_count (the order
\* of groups of equal repeat_count is not fixed)
C4_SummaryDescending ==
    (prog = "dup" /\ Saved) =>
        \A k, l \in DOMAIN workbook.second :
            k < l => workbook.second[k][3] >= workbook.second[l][3]

\* a group of 3 and a group of 2, the smaller key having the smaller group
C4_Witness ==
    /\ prog = "dup" /\ Saved
    /\ Len(workbook.second) = 2
    /\ workbook.second[1][3] = 3 /\ workbook.second[2][3] = 2
    /\ TupleLess(<<workbook.second[2][1], workbook.second[2][2]>>,
                 <<workbook.second[1][1], workbook.second[1][2]>>)

(***************************************************************************)
(* C5  Duplicate detector: "Duplicate Rows" is the concatenation of the    *)
(* selected groups, group by group, in the order of the "Summary" rows.    *)
(***************************************************************************)
C5_GroupByGroup ==
    (prog = "dup" /\ Saved) =>
        PrimarySrc =
            Concat([k \in DOMAIN workbook.second |->
                RowsWithKey(<<workbook.second[k][1], workbook.second[k][2]>>, Len(rows))])

\* C5 as amended: "Duplicate Rows" lists the selected rows in the order of the
\* input sheet
C5_InputOrder ==
    (prog = "dup" /\ Saved) =>
        \A p, q \in DOMAIN PrimarySrc : p < q => PrimarySrc[p] < PrimarySrc[q]

\* two groups whose rows alternate in the input sheet
C5_Witness ==
    /\ prog = "dup" /\ Saved
    /\ Len(PrimarySrc) = 4
    /\ RowKey(PrimarySrc[1]) = RowKey(PrimarySrc[3])
    /\ RowKey(PrimarySrc[2]) = RowKey(PrimarySrc[4])
    /\ RowKey(PrimarySrc[1]) # RowKey(PrimarySrc[2])

(***************************************************************************)
(* C6  Running an analysis twice on the same sheet with the same command   *)
(* line writes the same sheets, rows in the same order (stated for the     *)
(* command lines the spec calls valid: a threshold of at least 1).         *)
(***************************************************************************)
C6_Deterministic ==
    (run = 2 /\ pc = "done" /\ (prog = "cross" => args.min_channels >= 1))
        => workbook = prev_workbook

(***************************************************************************)
(* C7  Cross-channel detector: the authors of "Author Index" are in        *)
(* ascending case-insensitive order, "Cross-Channel Telemetry" holds the   *)
(* authors' rows in that same author order, and each index row is          *)
(* (author, number of distinct channels, the channels sorted ascending and *)
(* joined by ", ").                                                        *)
(***************************************************************************)
C7_AuthorOrder ==
    (prog = "cross" /\ Saved) =>
        LET idx == workbook.second
        IN  /\ \A k, l \in DOMAIN idx :
                   k < l => ~StrLess(Lower(idx[l][1]), Lower(idx[k][1]))
            /\ PrimarySrc = Concat([k \in DOMAIN idx |-> RowsOfAuthor(idx[k][1], Len(rows))])
            /\ \A k \in DOMAIN idx :
                   /\ idx[k][2] = Cardinality(SheetChannels(idx[k][1]))
                   /\ \E s \in Orders(SheetChannels(idx[k][1])) :
                          /\ \A i, j \in DOMAIN s : i < j => StrLess(s[i], s[j])
                          /\ idx[k][3] = Join(<<44, 32>>, s)

\* "B" read before "a ": the index lists a, then B; a has the channels y, x
C7_Witness ==
    /\ prog = "cross" /\ Saved
    /\ Len(workbook.second) = 2
    /\ workbook.second[1] = <<<<97>>, 2, <<120, 44, 32, 121>>>>
    /\ workbook.second[2][1] = <<66>>
    /\ rows[1][1] = StrCell(<<66>>)

(***************************************************************************)
(* C8  In both analyses, two rows of the primary sheet that belong to the  *)
(* same key (the same author; the same (author, text) pair) are in the     *)
(* order they have in the input sheet.                                     *)
(***************************************************************************)
SameGroup(i, j) ==
    IF prog = "dup" THEN RowKey(i) = RowKey(j)
    ELSE Strip(rows[i][1].v) = Strip(rows[j][1].v)

C8_RowOrderInGroup ==
    Saved => \A p, q \in DOMAIN PrimarySrc :
                 (p < q /\ SameGroup(PrimarySrc[p], PrimarySrc[q]))
                     => PrimarySrc[p] < PrimarySrc[q]

\* an author's rows 1 and 3 written after another author's row 2, and a
\* duplicate group whose rows are apart in the sheet
C8_Witness ==
    \/ /\ prog = "cross" /\ Saved
       /\ PrimarySrc = <<2, 1, 3>>
    \/ /\ prog = "dup" /\ Saved
       /\ PrimarySrc = <<1, 2, 3, 5>>
       /\ RowKey(1) = RowKey(5) /\ RowKey(2) = RowKey(3) /\ RowKey(1) # RowKey(2)

(***************************************************************************)
(* C9  Cross-channel detector: a row whose author cell is empty or blank   *)
(* creates no entity, is in no author's row list, adds its channel to no   *)
(* author's channel set and is not written to the output.                  *)
(***************************************************************************)
C9_EmptyAuthorExcluded ==
    prog = "cross" =>
        /\ DOMAIN rows_by_author \subseteq SheetAuthors
        /\ DOMAIN channels_by_author \subseteq SheetAuthors
        /\ \A a \in DOMAIN rows_by_author :
               \A k \in DOMAIN rows_by_author[a] : HasAuthor(rows_by_author[a][k])
        /\ \A a \in DOMAIN channels_by_author :
               channels_by_author[a] \subseteq SheetChannels(a)
        /\ Saved => \A p \in DOMAIN PrimarySrc : HasAuthor(PrimarySrc[p])

\* a sheet with an empty author cell, a blank author and a selected author
C9_Witness ==
    /\ prog = "cross" /\ Saved
    /\ \E i \in DOMAIN rows : rows[i] = <<NoneCell, StrCell(<<121>>)>>
    /\ \E i \in DOMAIN rows : rows[i][1] = StrCell(<<32>>)
    /\ Len(workbook.primary) = 1
    /\ \A a \in DOMAIN channels_by_author : <<121>> \notin channels_by_author[a]

(***************************************************************************)
(* C10  When a requested key column is not in the header, the run ends     *)
(* with the missing-column error, whose message lists the available column *)
(* names, before any row is aggregated and before any output is written.   *)
(***************************************************************************)
C10_MissingColumn ==
    (args.author_col \notin HeaderNames /\ pc # "start") =>
        /\ pc = "failed"
        /\ err.kind = "SystemExit"
        /\ HeaderNames \subseteq err.columns_listed
        /\ total_rows = 0 /\ rows_by_author = <<>> /\ work = <<>>
        /\ ~Saved

(***************************************************************************)
(* C11  A threshold (--min-channels) below 1 is rejected when the command  *)
(* line is read: no run with such a threshold reads rows, selects authors  *)
(* or saves a workbook.                                                    *)
(***************************************************************************)
C11_InvalidThresholdRejected ==
    (prog = "cross" /\ args.min_channels < 1) =>
        /\ pc \notin {"select", "write", "done"}
        /\ total_rows = 0
        /\ cross_authors = <<>>
        /\ ~Saved

(***************************************************************************)
(* C12  Cross-channel detector: a data row with fewer cells than the       *)
(* header is not an error; a key column beyond the row's length is read as *)
(* an empty cell (empty author: the row is skipped; empty channel: the row *)
(* is kept and adds no channel), and the pass runs to completion.          *)
(***************************************************************************)
\* the cell of input row i at column c, a missing trailing cell being empty
CellOrEmpty(i, c) == IF c <= Len(rows[i]) THEN rows[i][c] ELSE NoneCell

C12_ShortRowsTolerated ==
    (prog = "cross" /\ pc # "start") =>
        /\ err.kind # "IndexError"
        /\ pc \in {"select", "write", "done"} =>
               /\ total_rows = Len(rows)
               /\ \A i \in DOMAIN rows :
                      LET a == CellOrEmpty(i, 1)
                          c == CellOrEmpty(i, 2)
                      IN  IF a.t = "none" \/ Strip(a.v) = <<>>
                          THEN \A b \in DOMAIN rows_by_author :
                                   i \notin Range(rows_by_author[b])
                          ELSE /\ i \in Range(RowsOf(Strip(a.v)))
                               /\ (c.t = "str" /\ Strip(c.v) # <<>>)
                                      => Strip(c.v) \in ChannelsOf(Strip(a.v))

(***************************************************************************)
(* C13  Duplicate detector: a missing author or text cell normalizes to    *)
(* the empty string in the comparison key, so a row with a missing text is *)
(* never grouped with a row whose text is a non-empty literal string (such *)
(* as "nan"), and the summary key of a missing value is the empty string.  *)
(***************************************************************************)
C13_NullIsEmptyKey ==
    (prog = "dup" /\ pc \in {"find", "summarize", "write", "done"}) =>
        /\ \A i \in DOMAIN rows :
               /\ rows[i][1].t = "none" => DupKey(work[i])[1] = <<>>
               /\ rows[i][2].t = "none" => DupKey(work[i])[2] = <<>>
        /\ \A i, j \in DOMAIN rows :
               (rows[i][2].t = "none" /\ rows[j][2].t = "str" /\ rows[j][2].v # <<>>)
                   => DupKey(work[i]) # DupKey(work[j])
        /\ Saved =>
               \A p \in DOMAIN PrimarySrc :
                   rows[PrimarySrc[p]][2].t = "none" =>
                       \E k \in DOMAIN workbook.second : workbook.second[k][2] = <<>>

\* C13 in a build whose astype(str) keeps a missing value missing: the key of
\* a missing cell is the empty string
C13_NullKeyWhenKept ==
    (prog = "dup" /\ astype_na = "kept"
        /\ pc \in {"find", "summarize", "write", "done"}) =>
        \A i \in DOMAIN rows :
            /\ rows[i][1].t = "none" => DupKey(work[i])[1] = <<>>
            /\ rows[i][2].t = "none" => DupKey(work[i])[2] = <<>>

====
